---- MODULE Spec2Model ----
(***************************************************************************)
(* plato-feed: the state store (src/src/db.rs), the bounded, cancellable   *)
(* network client (src/src/client.rs), the feed/entry pipeline             *)
(* (src/src/feed.rs) and the image fan-out of the HTML engine              *)
(* (src/src/html.rs), as one state machine.                                *)
(*                                                                         *)
(* A run is one process: Db::new has loaded the backing file, one task per *)
(* server fetches and parses its feed and spawns one task per entry, each  *)
(* entry task calls Db::update(id, updated, produce) where produce is      *)
(* load_entry, and when every task has completed the Db is dropped, which  *)
(* merges and writes the snapshot.  A second run starts from the files the *)
(* first one left.  Each id occurs once in the feed, so update is called   *)
(* once per id and run, as its contract says.                              *)
(***************************************************************************)
EXTENDS Integers, FiniteSets, Sequences, TLC

\* ------------------------------------------------------------------ bounds
\* Timestamps (DateTime<Utc>) are 1..MaxTime; 0 stands for Option::None.
MaxTime == 2
\* The configured concurrent-requests value ranges over 0..MaxConcurrent.
MaxConcurrent == 2
\* tokio's Semaphore::MAX_PERMITS (usize::MAX >> 3), scaled into the range of
\* the configured values so that the clamp of Client::new is exercised.
MAX_PERMITS == 1
\* img elements with a resolvable src in every document.
NumImages == 2
\* Consecutive runs of the program.
MaxRuns == 2

\* ------------------------------------------------------- the configuration
Servers == {"s1", "s2"}
\* The servers of the settings file of a run with one feed.
OneServer == {"s1"}
Ids == {"a", "b"}
\* The entries of each server's feed document (ids are the feed's dedup keys).
EntriesOf(s) == IF s = "s1" THEN Ids ELSE {}
\* Entries that carry inline content with a body; the others need the full
\* article fetched from their best link.
Inline == {"a"}
Images == 1..NumImages

NoTime == 0
Times == 1..MaxTime

\* db.rs Entry { path, last_update }; NoRec stands for "no entry for the key".
NoRec == [path |-> <<"none", "none">>, last_update |-> NoTime]
\* load_entry's filename: a function of the entry alone.
PathOf(id) == <<"epub", id>>
\* What load_entry hands to update as the artifact's path when it succeeds.
ProducedPath(id) == PathOf(id)
\* An entry task starts by calling update, with load_entry as its save_file.
EntryTaskStart == "waitlock"
\* The path a record of an earlier run may hold (the title was different then).
OldPathOf(id) == <<"old", id>>
Records(id) == {[path |-> p, last_update |-> t] : p \in {PathOf(id), OldPathOf(id)}, t \in Times}
EmptyDb == [id \in Ids |-> NoRec]

\* Every Client::get call site: the feed of a server, the article of an entry,
\* the images of an entry.
FeedGet(s) == <<"feed", s, 0>>
ArticleGet(e) == <<"article", e, 0>>
ImgGet(e, i) == <<"img", e, i>>
Fetchers == {FeedGet(s) : s \in Servers} \cup {ArticleGet(e) : e \in Ids \ Inline}
              \cup {ImgGet(e, i) : e \in Ids, i \in Images}

Min(x, y) == IF x <= y THEN x ELSE y

VARIABLES
    run,        \* number of the current run
    now,        \* Utc::now() of the current run
    phase,      \* "running", "created", "merged", "stopped", "failed"
    dropRes,    \* what Drop did: "none", "create_failed", "serialize_failed", "written"
    dbFile,     \* db.json: [kind: "absent" | "full" | "truncated" | "partial", snap]
    files,      \* the artifact file at PathOf(id): "absent", "complete", "partial"
    feed,       \* the feed's reported update time of each entry (NoTime: none)
    loaded,     \* the snapshot Db::new read in this run
    prev,       \* Inner.prev.feeds
    new,        \* Inner.new.feeds
    lock,       \* holder of the Db mutex: an entry id, or "free"
    removed,    \* update's local `entry`: what prev.feeds.remove returned
    pc,         \* entry task: "unspawned", "waitlock", "produce", "article", "images", "done"
    res,        \* what update returned: "none", "ok", or the error
    invoked,    \* how many times produce was polled for the entry in this run
    srv,        \* server task: "fetch", "ok", "err"; "off": not in the settings
    concurrent_requests, \* Settings.concurrent_requests
    permits,    \* permits available in the semaphore
    held,       \* get calls that own a SemaphorePermit
    sigterm,    \* the AtomicBool set by SIGTERM
    get,        \* position of each get call, or what it returned
    first       \* what the first run left: its update results and its shutdown write

pipelineVars == <<run, now, phase, dropRes, dbFile, files, feed, loaded, prev, new, lock,
                  removed, pc, res, invoked, srv, concurrent_requests, permits, held,
                  sigterm, get, first>>

dbVars == <<loaded, prev, new, lock, removed>>
clientVars == <<concurrent_requests, permits, held, sigterm, get>>
runVars == <<run, now, phase, dropRes, dbFile, first, feed>>

\* ------------------------------------------------ content-source selection
\* load_feed and load_entry with the per-instance policy and the entry's own
\* content and links, for two servers: FeedSpec.
FeedServers == {"f1", "f2"}
FeedEntries == {"x", "y", "z"}
FeedOf(e) == IF e = "z" THEN "f2" ELSE "f1"
\* Instance.download_full_article: Option<bool>.
Policies == {"None", "Some(true)", "Some(false)"}
\* entry.content: None, Some(Content { body: None }), Some(body) with an empty
\* string, Some(body) with text.
ContentKinds == {"None", "NoBody", "Empty", "Body"}
\* The entries whose artifact file may be in the save directory before the run.
MayExist == {"x"}

VARIABLES
    download_full_article, \* the policy of each server's instance
    entry_content,  \* entry.content of each entry
    entry_links,    \* whether entry.links holds a link
    existed,        \* the entries whose file was there before the run
    server_task,    \* load_feed: "fetch", "spawned", "err"
    entry_task,     \* load_entry: position, or its result
    source,         \* what the body was taken from: "none", "inline", "article"
    article_gets,   \* client.get calls issued for the article text
    epub,           \* whether File::create made the artifact file in this run
    events,         \* the addDocument events printed for each entry
    driver          \* run: "joining" the tasks, or "done"

feedVars == <<download_full_article, entry_content, entry_links, existed, server_task,
              entry_task, source, article_gets, epub, events, driver>>

FeedIdle ==
    /\ download_full_article = [s \in FeedServers |-> "None"]
    /\ entry_content = [e \in FeedEntries |-> "None"]
    /\ entry_links = [e \in FeedEntries |-> FALSE]
    /\ existed = {}
    /\ server_task = [s \in FeedServers |-> "err"]
    /\ entry_task = [e \in FeedEntries |-> "unspawned"]
    /\ source = [e \in FeedEntries |-> "none"]
    /\ article_gets = [e \in FeedEntries |-> 0]
    /\ epub = [e \in FeedEntries |-> FALSE]
    /\ events = [e \in FeedEntries |-> 0]
    /\ driver = "done"

\* --------------------------------------------------------------- clean_html
\* html.rs clean_html on one document: HtmlSpec.
\* CLEAR_SELECTOR.
NoiseTags == {"br", "form", "hr", "iframe", "input", "script", "source", "style"}
\* The src attribute of an img element: none, an absolute URL in the form
\* Url prints it, an absolute URL that Url::parse normalises, a relative
\* reference, a string no base makes a URL of.
NoSrc == "(no src)"
AbsSrc == "http://h/a.jpg"
UpperSrc == "HTTP://H/b"
RelSrc == "c.jpg"
BadSrc == "http://["
Srcs == {AbsSrc, UpperSrc, RelSrc, BadSrc}
\* base_url: None, the URL of the article, and a bare host name.
GoodBase == "http://h/p/"
HostBase == "h"
Bases == {"None", GoodBase, HostBase}
\* Leaf nodes of a document: text, a noise element, an img element.
TextNode == [tag |-> "#text", src |-> NoSrc]
Leaves == {TextNode} \cup {[tag |-> t, src |-> NoSrc] : t \in NoiseTags}
             \cup {[tag |-> "img", src |-> s] : s \in Srcs \cup {NoSrc}}
\* The element around the inside leaves: none, a div no selector matches, an
\* article, a div with id "custom".
Containers == {"none", "div", "article", "custom"}
\* An empty element that precedes the container: none, an article, a main
\* element, a div with id "custom".
Leads == {"none", "article", "main", "custom"}
\* elem of the filter step when no selector matched.
NoElem == 0
\* Leaves inside the container.
MaxInside == 1
SeqUpTo(S, n) == UNION {[1..k -> S] : k \in 0..n}
Docs == [outside : SeqUpTo(Leaves, 1), lead : Leads, container : Containers,
         inside : SeqUpTo(Leaves, MaxInside)]
Options == [include_images : BOOLEAN, enable_filter : BOOLEAN,
            filter_element : {"None", "#custom", "!!"}, base_url : Bases]

VARIABLES
    doc,        \* the document Html::parse_document made of the html argument
    opts,       \* include_images, enable_filter, filter_element, base_url
    stage,      \* clean_html: "called", "fetching", "returned"
    elem,       \* the element the filter step narrowed to, NoElem if none
    markup,     \* the local html after the clean and filter steps
    urls,       \* the collected image URLs, in document order
    img_task,   \* each spawned load_img task: "running" or its result
    finished,   \* the load_img tasks in the order they ended
    resources,  \* the paths add_resource registered in the builder
    body        \* the bytes clean_html returned

htmlVars == <<doc, opts, stage, elem, markup, urls, img_task, finished, resources, body>>

HtmlIdle ==
    /\ doc = [outside |-> <<>>, lead |-> "none", container |-> "none", inside |-> <<>>]
    /\ opts = [include_images |-> FALSE, enable_filter |-> FALSE,
               filter_element |-> "None", base_url |-> "None"]
    /\ stage = "returned"
    /\ elem = NoElem
    /\ markup = <<>>
    /\ urls = <<>>
    /\ img_task = <<>>
    /\ finished = <<>>
    /\ resources = {}
    /\ body = <<>>

\* ------------------------------------------------------------ artifact path
\* The file name load_entry derives from an entry, over runs in which the
\* feed edits its entries: NameSpec.
Titles == {"None", "Hello", "hello!", "Bye"}
\* Edits of the feed between runs.
MaxEdits == 2

VARIABLES
    meta,       \* per entry id, the title and published time the feed gives it
    saved,      \* the artifact files under save_path
    edits       \* how often the feed changed an entry

nameVars == <<meta, saved, edits>>

NameIdle ==
    /\ meta = [i \in Ids |-> [title |-> "None", published |-> NoTime]]
    /\ saved = {}
    /\ edits = MaxEdits

\* ---------------------------------------------------- download_full_article
\* download_full_article on the links of one entry: LinkSpec.
\* Link.media_type: None or a declared type.
MediaTypes == {"None", "text/html", "application/xhtml+xml", "application/pdf"}
\* Links of an entry.
MaxLinks == 3

VARIABLES
    links,      \* entry.links: the media type of each link, in entry order
    link_stage, \* download_full_article: "called", "fetching", "html" or an error
    picked      \* the position of the link whose href is fetched, NoLink before

linkVars == <<links, link_stage, picked>>

NoLink == 0

LinkIdle ==
    /\ links = <<>>
    /\ link_stage = "No link to download"
    /\ picked = NoLink

\* ------------------------------------------------- update calls for one id
\* Several Db::update calls for the same id within one run: DupSpec.
DupId == "a"
\* update calls for the id in the run.
MaxCalls == 2
Calls == 1..MaxCalls
NoCall == 0

VARIABLES
    prior,      \* the record of the id in the snapshot the run loaded
    inner,      \* Inner for the id: the record in prev and the record in new
    guard,      \* the call that holds the MutexGuard, NoCall when it is free
    calls,      \* each call: "called", "save_file", "Ok", "Err"
    updated_arg,\* the updated argument of each call
    taken,      \* the entry each call bound in the upsert arm
    produced    \* how often save_file was polled in the run

dupVars == <<prior, inner, guard, calls, updated_arg, taken, produced>>

DupIdle ==
    /\ prior = NoRec
    /\ inner = [prev |-> NoRec, new |-> NoRec]
    /\ guard = NoCall
    /\ calls = [c \in Calls |-> "Ok"]
    /\ updated_arg = [c \in Calls |-> NoTime]
    /\ taken = [c \in Calls |-> NoRec]
    /\ produced = 0

\* The variables of the other specifications, which the pipeline leaves alone.
sideVars == <<feedVars, htmlVars, nameVars, linkVars, dupVars>>
SideIdle == FeedIdle /\ HtmlIdle /\ NameIdle /\ LinkIdle /\ DupIdle
notFeedVars == <<pipelineVars, htmlVars, nameVars, linkVars, dupVars>>
notHtmlVars == <<pipelineVars, feedVars, nameVars, linkVars, dupVars>>
notNameVars == <<pipelineVars, feedVars, htmlVars, linkVars, dupVars>>
notLinkVars == <<pipelineVars, feedVars, htmlVars, nameVars, dupVars>>
notDupVars == <<pipelineVars, feedVars, htmlVars, nameVars, linkVars>>

vars == <<pipelineVars, sideVars>>


\* -------------------------------------------------------------- the files
AbsentFile == [kind |-> "absent", snap |-> EmptyDb]
FullFile(snap) == [kind |-> "full", snap |-> snap]
\* File::create truncated db.json and nothing has been written yet.
TruncatedFile == [kind |-> "truncated", snap |-> EmptyDb]
\* The serializer stopped part-way: a prefix of the JSON text.
PartialFile == [kind |-> "partial", snap |-> EmptyDb]

\* The snapshots an earlier run may have left in db.json.
InitSnapshots == {s \in [Ids -> {NoRec} \cup UNION {Records(id) : id \in Ids}] :
                    \A id \in Ids : s[id] = NoRec \/ (s[id] \in Records(id) /\ s[id].path = OldPathOf(id))}

DbNew_Empty(file) == EmptyDb

\* Db::new: no file gives an empty prev, a file is deserialized; a file that is
\* no complete JSON document makes Db::new return the error.
DbNewOk(file) == file.kind \in {"absent", "full"}
DbNew(file) == IF file.kind = "full" THEN file.snap ELSE EmptyDb

NoFirst == [done |-> {}, ok |-> {}, drop |-> "none", file |-> AbsentFile]

\* The state of the tasks and of the client at the start of a process.
StartSrv(configured) == [s \in Servers |-> IF s \in configured THEN "fetch" ELSE "off"]
StartGet(sv) == [f \in Fetchers |-> IF f[1] = "feed" /\ sv[f[2]] # "off" THEN "acquire" ELSE "idle"]
\* What a get call returned: Ok(Response), the SIGTERM error of the 1st, 2nd or
\* 3rd checkpoint, or the error of the request or of the body read.
Cancelled == {"cancelled1", "cancelled2", "cancelled3"}
Final == {"ok", "error"} \cup Cancelled

PoolSize_Zero(cr) == 0

\* Client::new: the semaphore's size.
PoolSize(cr) == Min(cr, MAX_PERMITS)

Init ==
    /\ run = 1
    /\ now = 1
    /\ phase = "running"
    /\ dropRes = "none"
    /\ dbFile \in {AbsentFile} \cup {FullFile(s) : s \in InitSnapshots}
    /\ files = [id \in Ids |-> "absent"]
    /\ feed \in [Ids -> {NoTime} \cup Times]
    /\ loaded = DbNew(dbFile)
    /\ prev = DbNew(dbFile)
    /\ new = EmptyDb
    /\ lock = "free"
    /\ removed = [e \in Ids |-> NoRec]
    /\ pc = [e \in Ids |-> "unspawned"]
    /\ res = [e \in Ids |-> "none"]
    /\ invoked = [e \in Ids |-> 0]
    /\ srv = StartSrv(OneServer)
    /\ concurrent_requests \in 0..MaxConcurrent
    /\ permits = PoolSize(concurrent_requests)
    /\ held = {}
    /\ sigterm = FALSE
    /\ get = StartGet(StartSrv(OneServer))
    /\ first = NoFirst
    /\ SideIdle

\* ------------------------------------------------------------- Db::update
Fresh_Newer(entry, updated) == updated = NoTime \/ entry.last_update > updated

\* updated.is_none_or(|u| entry.last_update >= u)
Fresh(entry, updated) == updated = NoTime \/ entry.last_update >= updated

ResolveTime_Now(updated) == now

\* updated.unwrap_or_else(Utc::now)
ResolveTime(updated) == IF updated = NoTime THEN now ELSE updated

\* Ok(path) arm: insert the new entry, return Ok; the guard is dropped.
UpdateOk(e, path) ==
    /\ new' = [new EXCEPT ![e] = [path |-> path, last_update |-> ResolveTime(feed[e])]]
    /\ lock' = "free"
    /\ res' = [res EXCEPT ![e] = "ok"]
    /\ pc' = [pc EXCEPT ![e] = "done"]

UpdateErr_Drops(e, err) ==
    /\ new' = new
    /\ lock' = "free"
    /\ res' = [res EXCEPT ![e] = err]
    /\ pc' = [pc EXCEPT ![e] = "done"]

UpdateErr_Rollback(e, err) ==
    /\ new' = loaded
    /\ lock' = "free"
    /\ res' = [res EXCEPT ![e] = err]
    /\ pc' = [pc EXCEPT ![e] = "done"]

UpdateErr_Inserts(e, err) ==
    /\ new' = [new EXCEPT ![e] = [path |-> ProducedPath(e), last_update |-> ResolveTime(feed[e])]]
    /\ lock' = "free"
    /\ res' = [res EXCEPT ![e] = err]
    /\ pc' = [pc EXCEPT ![e] = "done"]

\* Err(err) arm: put the removed entry back if there was one, return Err(err).
UpdateErr(e, err) ==
    /\ new' = IF removed[e] # NoRec THEN [new EXCEPT ![e] = removed[e]] ELSE new
    /\ lock' = "free"
    /\ res' = [res EXCEPT ![e] = err]
    /\ pc' = [pc EXCEPT ![e] = "done"]

CanLock_Always(l) == TRUE

\* self.0.lock().await completes only when no other update call has the guard.
CanLock(l) == l = "free"

\* lock().await, prev.feeds.remove(&id) and the match: the fresh arm carries the
\* entry over and returns; the other arm keeps the guard and polls save_file.
UpdateBegin(e) ==
    /\ phase = "running"
    /\ pc[e] = EntryTaskStart
    /\ CanLock(lock)
    /\ prev' = [prev EXCEPT ![e] = NoRec]
    /\ IF prev[e] # NoRec /\ Fresh(prev[e], feed[e])
         THEN /\ new' = [new EXCEPT ![e] = prev[e]]
              /\ res' = [res EXCEPT ![e] = "ok"]
              /\ pc' = [pc EXCEPT ![e] = "done"]
              /\ UNCHANGED <<lock, removed, invoked>>
         ELSE /\ removed' = [removed EXCEPT ![e] = prev[e]]
              /\ lock' = e
              /\ invoked' = [invoked EXCEPT ![e] = @ + 1]
              /\ pc' = [pc EXCEPT ![e] = "produce"]
              /\ UNCHANGED <<new, res>>
    /\ UNCHANGED <<runVars, files, loaded, srv, clientVars>>
    /\ UNCHANGED sideVars


\* ------------------------------------------------------------ Client::get
CanAcquire_Always(p) == TRUE

\* semaphore.acquire() completes only when a permit is available.
CanAcquire(p) == p > 0

DropPermit_Leak(p) == p

\* The SemaphorePermit goes out of scope (an early return, or drop(permit)).
DropPermit(p) == p + 1

Checkpoint_NoThird(k) == k # 3 /\ sigterm

\* The load of the flag at the k-th checkpoint of get.
Checkpoint(k) == sigterm

\* acquire().await, then the first checkpoint; otherwise the request is sent.
GetAcquire(f) ==
    /\ phase = "running"
    /\ get[f] = "acquire"
    /\ CanAcquire(permits)
    /\ IF Checkpoint(1)
         THEN /\ get' = [get EXCEPT ![f] = "cancelled1"]
              /\ permits' = DropPermit(permits - 1)
              /\ held' = held
         ELSE /\ get' = [get EXCEPT ![f] = "sent"]
              /\ permits' = permits - 1
              /\ held' = held \cup {f}
    /\ UNCHANGED <<runVars, files, dbVars, pc, res, invoked, srv,
                   concurrent_requests, sigterm>>
    /\ UNCHANGED sideVars

\* send().await?: the request fails, or the headers arrive and the second
\* checkpoint is passed.
GetHeaders(f) ==
    /\ phase = "running"
    /\ get[f] = "sent"
    /\ \E arrived \in BOOLEAN :
         IF ~arrived
           THEN /\ get' = [get EXCEPT ![f] = "error"]
                /\ permits' = DropPermit(permits)
                /\ held' = held \ {f}
           ELSE IF Checkpoint(2)
             THEN /\ get' = [get EXCEPT ![f] = "cancelled2"]
                  /\ permits' = DropPermit(permits)
                  /\ held' = held \ {f}
             ELSE /\ get' = [get EXCEPT ![f] = "reading"]
                  /\ UNCHANGED <<permits, held>>
    /\ UNCHANGED <<runVars, files, dbVars, pc, res, invoked, srv,
                   concurrent_requests, sigterm>>
    /\ UNCHANGED sideVars

\* bytes().await?: the read fails, or the body is complete and the third
\* checkpoint is passed; then drop(permit) and Ok(Response).
GetBody(f) ==
    /\ phase = "running"
    /\ get[f] = "reading"
    /\ \E read \in BOOLEAN :
         /\ get' = [get EXCEPT ![f] = IF ~read THEN "error"
                                      ELSE IF Checkpoint(3) THEN "cancelled3" ELSE "ok"]
         /\ permits' = DropPermit(permits)
         /\ held' = held \ {f}
    /\ UNCHANGED <<runVars, files, dbVars, pc, res, invoked, srv,
                   concurrent_requests, sigterm>>
    /\ UNCHANGED sideVars

\* SIGTERM arrives: signal_hook sets the flag; nothing clears it.
SetSigterm ==
    /\ phase = "running"
    /\ ~sigterm
    /\ sigterm' = TRUE
    /\ UNCHANGED <<runVars, files, dbVars, pc, res, invoked, srv,
                   concurrent_requests, permits, held, get>>
    /\ UNCHANGED sideVars

\* ---------------------------------------------------------------- load_feed
\* client.get(url).await? and parser::parse(body)?, then one task per entry,
\* each calling update with load_entry as its save_file.
LoadFeed(s) ==
    /\ phase = "running"
    /\ srv[s] = "fetch"
    /\ get[FeedGet(s)] \in Final
    /\ \E parsed \in BOOLEAN :
         IF get[FeedGet(s)] = "ok" /\ parsed
           THEN /\ srv' = [srv EXCEPT ![s] = "ok"]
                /\ pc' = [e \in Ids |-> IF e \in EntriesOf(s) THEN EntryTaskStart ELSE pc[e]]
           ELSE /\ srv' = [srv EXCEPT ![s] = "err"]
                /\ UNCHANGED pc
    /\ UNCHANGED <<runVars, files, dbVars, res, invoked, clientVars>>
    /\ UNCHANGED sideVars

\* --------------------------------------------------------------- load_entry
\* clean_html spawns one load_img task per collected url.
SpawnImages(e) == [f \in Fetchers |-> IF f[1] = "img" /\ f[2] = e THEN "acquire" ELSE get[f]]
JoinImages(e) == [f \in Fetchers |-> IF f[1] = "img" /\ f[2] = e THEN "idle" ELSE get[f]]
ImagesDone(e) == \A i \in Images : get[ImgGet(e, i)] \in Final

\* The start of load_entry up to its first await: the builder, the filename,
\* the early return when the file exists, and the choice of the content.
ProduceStart(e) ==
    /\ phase = "running"
    /\ pc[e] = "produce"
    /\ \/ /\ files[e] # "absent"
          /\ UpdateOk(e, ProducedPath(e))
          /\ UNCHANGED get
       \/ /\ files[e] = "absent"
          /\ UpdateErr(e, "io")
          /\ UNCHANGED get
       \/ /\ files[e] = "absent"
          /\ e \in Inline
          /\ get' = SpawnImages(e)
          /\ pc' = [pc EXCEPT ![e] = "images"]
          /\ UNCHANGED <<new, lock, res>>
       \/ /\ files[e] = "absent"
          /\ e \notin Inline
          /\ get' = [get EXCEPT ![ArticleGet(e)] = "acquire"]
          /\ pc' = [pc EXCEPT ![e] = "article"]
          /\ UNCHANGED <<new, lock, res>>
    /\ UNCHANGED <<runVars, files, loaded, prev, removed, invoked, srv,
                   concurrent_requests, permits, held, sigterm>>
    /\ UNCHANGED sideVars

ArticleDone_IgnoresError(e) ==
    /\ phase = "running"
    /\ pc[e] = "article"
    /\ get[ArticleGet(e)] \in Final
    /\ get' = SpawnImages(e)
    /\ pc' = [pc EXCEPT ![e] = "images"]
    /\ UNCHANGED <<runVars, files, dbVars, res, invoked, srv,
                   concurrent_requests, permits, held, sigterm>>
    /\ UNCHANGED sideVars

\* download_full_article after client.get(link).await?: the error is returned
\* through update; a body that is UTF-8 goes to clean_html.
ArticleDone(e) ==
    /\ phase = "running"
    /\ pc[e] = "article"
    /\ get[ArticleGet(e)] \in Final
    /\ \/ /\ get[ArticleGet(e)] = "ok"
          /\ get' = SpawnImages(e)
          /\ pc' = [pc EXCEPT ![e] = "images"]
          /\ UNCHANGED <<new, lock, res>>
       \/ /\ UNCHANGED get
          /\ UpdateErr(e, CASE get[ArticleGet(e)] \in Cancelled -> "SIGTERM"
                            [] get[ArticleGet(e)] = "error" -> "net"
                            [] OTHER -> "utf8")
    /\ UNCHANGED <<runVars, files, loaded, prev, removed, invoked, srv,
                   concurrent_requests, permits, held, sigterm>>
    /\ UNCHANGED sideVars

\* join_all of the image tasks, the rewrite, add_content, File::create and
\* generate, the completion event, and the return into update.
ProduceFinish(e) ==
    /\ phase = "running"
    /\ pc[e] = "images"
    /\ ImagesDone(e)
    /\ get' = JoinImages(e)
    /\ \/ /\ files' = [files EXCEPT ![e] = "complete"]
          /\ UpdateOk(e, ProducedPath(e))
       \/ /\ UNCHANGED files
          /\ UpdateErr(e, "io")
       \/ /\ files' = [files EXCEPT ![e] = "partial"]
          /\ UpdateErr(e, "io")
    /\ UNCHANGED <<runVars, loaded, prev, removed, invoked, srv,
                   concurrent_requests, permits, held, sigterm>>
    /\ UNCHANGED sideVars


\* ------------------------------------------------------------ impl Drop for Db
AllDone_ServersOnly == \A s \in Servers : srv[s] # "fetch"

\* The driver has joined every server task and every entry task.
AllDone ==
    /\ \A s \in Servers : srv[s] # "fetch"
    /\ \A e \in Ids : pc[e] \in {"unspawned", "done"}

Merge_NewOnly(p, n) == n

\* for (name, feed) in prev.feeds.drain(): insert what new does not contain.
Merge(p, n) == [id \in Ids |-> IF n[id] = NoRec THEN p[id] ELSE n[id]]

\* File::create(DB_PATH): truncates db.json, or fails and drop returns.
DropCreate ==
    /\ phase = "running"
    /\ AllDone
    /\ \E created \in BOOLEAN :
         IF created
           THEN /\ dbFile' = TruncatedFile
                /\ phase' = "created"
                /\ UNCHANGED dropRes
           ELSE /\ phase' = "stopped"
                /\ dropRes' = "create_failed"
                /\ UNCHANGED dbFile
    /\ UNCHANGED <<run, now, first, feed, files, dbVars, pc, res, invoked, srv,
                   clientVars>>
    /\ UNCHANGED sideVars

\* The merge loop over prev.feeds.drain().
DropMerge ==
    /\ phase = "created"
    /\ new' = Merge(prev, new)
    /\ prev' = EmptyDb
    /\ phase' = "merged"
    /\ UNCHANGED <<run, now, dropRes, dbFile, first, feed, files, loaded, lock,
                   removed, pc, res, invoked, srv, clientVars>>
    /\ UNCHANGED sideVars

\* inner.new.serialize(&mut serializer): the whole document, or an error that
\* leaves a prefix of it in the file.
DropSerialize ==
    /\ phase = "merged"
    /\ phase' = "stopped"
    /\ \E written \in BOOLEAN :
         IF written
           THEN /\ dbFile' = FullFile(new)
                /\ dropRes' = "written"
           ELSE /\ dbFile' = PartialFile
                /\ dropRes' = "serialize_failed"
    /\ UNCHANGED <<run, now, first, feed, files, dbVars, pc, res, invoked, srv,
                   clientVars>>
    /\ UNCHANGED sideVars

\* ------------------------------------------------------------ the next run
\* The program is started again on the same feed: Db::new reads db.json and
\* Client::new makes a fresh pool and flag.
Restart ==
    /\ phase = "stopped"
    /\ run < MaxRuns
    /\ run' = run + 1
    /\ now' = now + 1
    /\ first' = [done |-> {e \in Ids : pc[e] = "done"}, ok |-> {e \in Ids : res[e] = "ok"},
                 drop |-> dropRes, file |-> dbFile]
    /\ phase' = IF DbNewOk(dbFile) THEN "running" ELSE "failed"
    /\ dropRes' = "none"
    /\ loaded' = DbNew(dbFile)
    /\ prev' = DbNew(dbFile)
    /\ new' = EmptyDb
    /\ lock' = "free"
    /\ removed' = [e \in Ids |-> NoRec]
    /\ pc' = [e \in Ids |-> "unspawned"]
    /\ res' = [e \in Ids |-> "none"]
    /\ invoked' = [e \in Ids |-> 0]
    /\ srv' = StartSrv({s \in Servers : srv[s] # "off"})
    /\ permits' = PoolSize(concurrent_requests)
    /\ held' = {}
    /\ sigterm' = FALSE
    /\ get' = StartGet(srv)
    /\ UNCHANGED <<dbFile, files, feed, concurrent_requests>>
    /\ UNCHANGED sideVars

Next ==
    \/ \E e \in Ids : UpdateBegin(e)
    \/ \E e \in Ids : ProduceStart(e)
    \/ \E e \in Ids : ArticleDone(e)
    \/ \E e \in Ids : ProduceFinish(e)
    \/ \E s \in Servers : LoadFeed(s)
    \/ \E f \in Fetchers : GetAcquire(f)
    \/ \E f \in Fetchers : GetHeaders(f)
    \/ \E f \in Fetchers : GetBody(f)
    \/ SetSigterm
    \/ DropCreate
    \/ DropMerge
    \/ DropSerialize
    \/ Restart

Spec == Init /\ [][Next]_vars

\* ------------------------------------------------- two servers, scheduled
\* A run of two servers: the feed of s1 holds the entries, the feed of s2 is
\* fetched by its own server task at the same time. concurrent_requests is at
\* least 1; an earlier run left an empty store, or a record of time 1 for
\* every entry and perhaps the file of an entry; the feed reports time 1 for
\* the inline entry and a newer time for the other.
LiveSnapshots == {s \in InitSnapshots : \A id, d \in Ids : s[id].last_update = s[d].last_update
                                                           /\ s[id].last_update \in {NoTime, 1}}

LiveInit ==
    /\ run = 1
    /\ now = 1
    /\ phase = "running"
    /\ dropRes = "none"
    /\ dbFile \in {FullFile(s) : s \in LiveSnapshots}
    /\ files \in [Ids -> {"absent", "complete"}]
    /\ \A id \in Inline : files[id] = "absent"
    /\ feed = [id \in Ids |-> IF id \in Inline THEN 1 ELSE MaxTime]
    /\ loaded = DbNew(dbFile)
    /\ prev = DbNew(dbFile)
    /\ new = EmptyDb
    /\ lock = "free"
    /\ removed = [e \in Ids |-> NoRec]
    /\ pc = [e \in Ids |-> "unspawned"]
    /\ res = [e \in Ids |-> "none"]
    /\ invoked = [e \in Ids |-> 0]
    /\ srv = StartSrv(Servers)
    /\ concurrent_requests \in 1..MaxConcurrent
    /\ permits = PoolSize(concurrent_requests)
    /\ held = {}
    /\ sigterm = FALSE
    /\ get = StartGet(StartSrv(Servers))
    /\ first = NoFirst
    /\ SideIdle

\* The tokio runtime polls every task that can make progress; the Mutex and
\* the Semaphore hand out the guard and the permits in the order of the
\* requests, so a waiter that stays servable is served; every request that
\* was sent is answered or fails.
Fairness ==
    /\ \A e \in Ids : WF_vars(UpdateBegin(e))
    /\ \A e \in Ids : WF_vars(ProduceStart(e)) /\ WF_vars(ArticleDone(e)) /\ WF_vars(ProduceFinish(e))
    /\ \A s \in Servers : WF_vars(LoadFeed(s))
    /\ \A f \in Fetchers : WF_vars(GetAcquire(f)) /\ WF_vars(GetHeaders(f)) /\ WF_vars(GetBody(f))
    /\ WF_vars(DropCreate) /\ WF_vars(DropMerge) /\ WF_vars(DropSerialize)

\* One run of the process, from Client::new to the end of Drop.
LiveNext ==
    \/ \E e \in Ids : UpdateBegin(e)
    \/ \E e \in Ids : ProduceStart(e)
    \/ \E e \in Ids : ArticleDone(e)
    \/ \E e \in Ids : ProduceFinish(e)
    \/ \E s \in Servers : LoadFeed(s)
    \/ \E f \in Fetchers : GetAcquire(f)
    \/ \E f \in Fetchers : GetHeaders(f)
    \/ \E f \in Fetchers : GetBody(f)
    \/ SetSigterm
    \/ DropCreate
    \/ DropMerge
    \/ DropSerialize

LiveSpec == LiveInit /\ [][LiveNext]_vars /\ Fairness


\* ============================================== content-source selection
\* The pipeline at rest: what the other specifications hold its variables at.
PipelineIdle ==
    /\ run = 1
    /\ now = 1
    /\ phase = "stopped"
    /\ dropRes = "none"
    /\ dbFile = AbsentFile
    /\ files = [id \in Ids |-> "absent"]
    /\ feed = [id \in Ids |-> NoTime]
    /\ loaded = EmptyDb
    /\ prev = EmptyDb
    /\ new = EmptyDb
    /\ lock = "free"
    /\ removed = [e \in Ids |-> NoRec]
    /\ pc = [e \in Ids |-> "unspawned"]
    /\ res = [e \in Ids |-> "none"]
    /\ invoked = [e \in Ids |-> 0]
    /\ srv = StartSrv(OneServer)
    /\ concurrent_requests = 0
    /\ permits = 0
    /\ held = {}
    /\ sigterm = FALSE
    /\ get = StartGet(StartSrv(OneServer))
    /\ first = NoFirst

SelectSource_Fallback(policy, content) ==
    IF policy = "Some(true)" THEN "article"
    ELSE IF content \in {"Empty", "Body"} THEN "inline"
    ELSE "article"

\* load_entry's choice of the content: Some(true) goes to the article; else
\* the pattern Some(Content { body: Some(body), .. }) takes any body string;
\* else Some(false) is the "No content" error; else the article.
SelectSource(policy, content) ==
    IF policy = "Some(true)" THEN "article"
    ELSE IF content \in {"Empty", "Body"} THEN "inline"
    ELSE IF policy = "Some(false)" THEN "NoContent"
    ELSE "article"

\* The results of load_entry: Ok(()), or the error it returned.
FeedErrors == {"NoContent", "NoLink", "net", "utf8", "io"}
FeedFinal == {"ok"} \cup FeedErrors
FeedRunning == {"start", "fetching", "html"}

FeedInit ==
    /\ PipelineIdle
    /\ HtmlIdle
    /\ NameIdle
    /\ LinkIdle
    /\ DupIdle
    /\ download_full_article \in [FeedServers -> Policies]
    /\ entry_content \in [FeedEntries -> ContentKinds]
    /\ entry_links \in [FeedEntries -> BOOLEAN]
    /\ existed \in SUBSET MayExist
    /\ server_task = [s \in FeedServers |-> "fetch"]
    /\ entry_task = [e \in FeedEntries |-> "unspawned"]
    /\ source = [e \in FeedEntries |-> "none"]
    /\ article_gets = [e \in FeedEntries |-> 0]
    /\ epub = [e \in FeedEntries |-> FALSE]
    /\ events = [e \in FeedEntries |-> 0]
    /\ driver = "joining"

\* filename.exists(): the file was there before the run, or this run made it.
FileExists(e) == e \in existed \/ epub[e]

Selection_NoSkip(e) == SelectSource(download_full_article[FeedOf(e)], entry_content[e])

\* load_entry between the file name and the content: filename.exists() ends
\* the entry before anything is selected.
Selection(e) ==
    IF FileExists(e) THEN "skip"
    ELSE SelectSource(download_full_article[FeedOf(e)], entry_content[e])

\* load_feed: client.get(url).await? and parser::parse(body)? return the error
\* of the server; otherwise every entry gets its own spawned load_entry.
SpawnEntries(s) ==
    /\ server_task[s] = "fetch"
    /\ \E parsed \in BOOLEAN :
         IF parsed
           THEN /\ server_task' = [server_task EXCEPT ![s] = "spawned"]
                /\ entry_task' = [e \in FeedEntries |->
                                    IF FeedOf(e) = s THEN "start" ELSE entry_task[e]]
           ELSE /\ server_task' = [server_task EXCEPT ![s] = "err"]
                /\ UNCHANGED entry_task
    /\ UNCHANGED <<notFeedVars, download_full_article, entry_content, entry_links, existed,
                   source, article_gets, epub, events, driver>>

\* load_entry up to its first await: the builder, the file name and the
\* return of Ok(()) when a file of that name exists, the content selection
\* and, on the article path, download_full_article's link and its client.get.
ChooseContent(e) ==
    /\ entry_task[e] = "start"
    /\ \/ /\ entry_task' = [entry_task EXCEPT ![e] = "io"]
          /\ UNCHANGED <<source, article_gets>>
       \/ LET choice == Selection(e) IN
          CASE choice = "skip" ->
                 /\ entry_task' = [entry_task EXCEPT ![e] = "ok"]
                 /\ UNCHANGED <<source, article_gets>>
            [] choice = "inline" ->
                 /\ entry_task' = [entry_task EXCEPT ![e] = "html"]
                 /\ source' = [source EXCEPT ![e] = "inline"]
                 /\ UNCHANGED article_gets
            [] choice = "NoContent" ->
                 /\ entry_task' = [entry_task EXCEPT ![e] = "NoContent"]
                 /\ UNCHANGED <<source, article_gets>>
            [] choice = "article" /\ ~entry_links[e] ->
                 /\ entry_task' = [entry_task EXCEPT ![e] = "NoLink"]
                 /\ UNCHANGED <<source, article_gets>>
            [] choice = "article" /\ entry_links[e] ->
                 /\ entry_task' = [entry_task EXCEPT ![e] = "fetching"]
                 /\ source' = [source EXCEPT ![e] = "article"]
                 /\ article_gets' = [article_gets EXCEPT ![e] = @ + 1]
    /\ UNCHANGED <<notFeedVars, download_full_article, entry_content, entry_links, existed,
                   server_task, epub, events, driver>>

\* download_full_article after the get: its error, a body that is not UTF-8,
\* or the body handed to clean_html.
ArticleFetched(e) ==
    /\ entry_task[e] = "fetching"
    /\ \E r \in {"html", "net", "utf8"} : entry_task' = [entry_task EXCEPT ![e] = r]
    /\ UNCHANGED <<notFeedVars, download_full_article, entry_content, entry_links, existed,
                   server_task, source, article_gets, epub, events, driver>>

WriteArtifact_EventFirst(e) ==
    /\ entry_task[e] = "html"
    /\ events' = [events EXCEPT ![e] = @ + 1]
    /\ \/ /\ entry_task' = [entry_task EXCEPT ![e] = "io"]
          /\ UNCHANGED epub
       \/ /\ entry_task' = [entry_task EXCEPT ![e] = "ok"]
          /\ epub' = [epub EXCEPT ![e] = TRUE]
    /\ UNCHANGED <<notFeedVars, download_full_article, entry_content, entry_links, existed,
                   server_task, source, article_gets, driver>>

\* clean_html has returned its bytes: add_content, File::create, generate and
\* the addDocument event.
WriteArtifact(e) ==
    /\ entry_task[e] = "html"
    /\ \/ /\ entry_task' = [entry_task EXCEPT ![e] = "io"]
          /\ UNCHANGED <<epub, events>>
       \/ /\ entry_task' = [entry_task EXCEPT ![e] = "io"]
          /\ epub' = [epub EXCEPT ![e] = TRUE]
          /\ UNCHANGED events
       \/ /\ entry_task' = [entry_task EXCEPT ![e] = "ok"]
          /\ epub' = [epub EXCEPT ![e] = TRUE]
          /\ events' = [events EXCEPT ![e] = @ + 1]
    /\ UNCHANGED <<notFeedVars, download_full_article, entry_content, entry_links, existed,
                   server_task, source, article_gets, driver>>

JoinAll_FailFast ==
    /\ driver = "joining"
    /\ \A s \in FeedServers : server_task[s] # "fetch"
    /\ \/ \E e \in FeedEntries : entry_task[e] \in FeedErrors
       \/ \A e \in FeedEntries : server_task[FeedOf(e)] = "spawned" => entry_task[e] \in FeedFinal
    /\ driver' = "done"
    /\ UNCHANGED <<notFeedVars, download_full_article, entry_content, entry_links, existed,
                   server_task, entry_task, source, article_gets, epub, events>>

\* run: join_all over the server tasks, and for each that returned its entry
\* tasks join_all over those; every error is printed, none ends the loop.
JoinAll ==
    /\ driver = "joining"
    /\ \A s \in FeedServers : server_task[s] # "fetch"
    /\ \A e \in FeedEntries : server_task[FeedOf(e)] = "spawned" => entry_task[e] \in FeedFinal
    /\ driver' = "done"
    /\ UNCHANGED <<notFeedVars, download_full_article, entry_content, entry_links, existed,
                   server_task, entry_task, source, article_gets, epub, events>>

EntryNext(e) == ChooseContent(e) \/ ArticleFetched(e) \/ WriteArtifact(e)

FeedNext ==
    \/ \E s \in FeedServers : SpawnEntries(s)
    \/ \E e \in FeedEntries : ChooseContent(e)
    \/ \E e \in FeedEntries : ArticleFetched(e)
    \/ \E e \in FeedEntries : WriteArtifact(e)
    \/ JoinAll

FeedSpec == FeedInit /\ [][FeedNext]_vars


\* ================================================================ clean_html
\* Url::parse: an absolute URL comes back in the form Url prints (scheme and
\* host in lower case); anything else is a ParseError.
UrlParse(s) ==
    CASE s = AbsSrc -> AbsSrc
      [] s = UpperSrc -> "http://h/b"
      [] s = GoodBase -> GoodBase
      [] OTHER -> "ParseError"

\* Url::join of a reference that is not an absolute URL.
UrlJoin(base, s) == IF s = RelSrc THEN "http://h/p/c.jpg" ELSE "ParseError"

\* The closure of get_urls: the URL of one img element, or "Err".
Resolve(src, base_url) ==
    IF src = NoSrc THEN "Err"
    ELSE IF UrlParse(src) # "ParseError" THEN UrlParse(src)
    ELSE IF base_url # "None"
         THEN IF UrlParse(base_url) = "ParseError" \/ UrlJoin(UrlParse(base_url), src) = "ParseError"
              THEN "Err"
              ELSE UrlJoin(UrlParse(base_url), src)
    ELSE "Err"

IsImg(n) == n.tag = "img"

\* get_urls: the URLs of the img elements below a node, in document order,
\* those that do not resolve left out.
GetUrls(nodes, base_url) ==
    LET imgs == SelectSeq(nodes, LAMBDA n : IsImg(n) /\ Resolve(n.src, base_url) # "Err")
    IN  [i \in 1..Len(imgs) |-> Resolve(imgs[i].src, base_url)]

\* The clean step of the older clean_html, which detached iframe and source
\* elements only.
Clear_IframeSource(nodes) == SelectSeq(nodes, LAMBDA n : n.tag \notin {"iframe", "source"})

\* The clean step: every element CLEAR_SELECTOR matches is detached.
Clear(nodes) == SelectSeq(nodes, LAMBDA n : n.tag \notin NoiseTags)

FILTER_ELEMENTS ==
    <<"article", "main", "div#main", "#main-article", ".main-content", "#body",
      "#content", ".content", "div#article", "div.article", "div.post",
      "div.post-outer", ".l-root", ".content-container",
      ".StandardArticleBody_body", "div#article-inner", "div#newsstorytext",
      "div.general">>

\* Selector::parse of the configured filter_element.
SelectorParse(s) == IF s = "!!" THEN "Err" ELSE s

Selectors_FallbackFirst(o) ==
    FILTER_ELEMENTS
    \o (IF o.filter_element = "None" \/ SelectorParse(o.filter_element) = "Err"
        THEN <<>> ELSE <<SelectorParse(o.filter_element)>>)

\* The selectors the filter step tries, in order: filter_element if it is
\* given and parses, then FILTER_ELEMENTS.
Selectors(o) ==
    (IF o.filter_element = "None" \/ SelectorParse(o.filter_element) = "Err"
     THEN <<>> ELSE <<SelectorParse(o.filter_element)>>)
    \o FILTER_ELEMENTS

Matches(sel, kind) ==
    \/ sel = "#custom" /\ kind = "custom"
    \/ sel = "article" /\ kind = "article"
    \/ sel = "main" /\ kind = "main"

\* The elements of the document a selector can match, in document order.
ElementsOf(d) ==
    (IF d.lead # "none" THEN <<[kind |-> d.lead, kids |-> <<>>]>> ELSE <<>>)
    \o (IF d.container # "none" THEN <<[kind |-> d.container, kids |-> d.inside]>> ELSE <<>>)

\* doc.select(filter).next(): the first element the selector matches.
FirstMatch(sel, els) ==
    IF \E k \in 1..Len(els) : Matches(sel, els[k].kind)
    THEN CHOOSE k \in 1..Len(els) :
            Matches(sel, els[k].kind) /\ \A j \in 1..(k - 1) : ~Matches(sel, els[j].kind)
    ELSE NoElem

\* The filter step: the first match of the first selector that matches.
Winner(sels, els) ==
    IF \E i \in 1..Len(sels) : FirstMatch(sels[i], els) # NoElem
    THEN FirstMatch(sels[CHOOSE i \in 1..Len(sels) :
                            /\ FirstMatch(sels[i], els) # NoElem
                            /\ \A j \in 1..(i - 1) : FirstMatch(sels[j], els) = NoElem], els)
    ELSE NoElem

Chosen(d, o) == IF o.enable_filter THEN Winner(Selectors(o), ElementsOf(d)) ELSE NoElem

\* The filter step found an element to narrow the document to.
Narrowed(d, o) == Chosen(d, o) # NoElem

\* The markup of the container element around its children.
Element(container, kids) ==
    IF container = "none" THEN kids
    ELSE <<[tag |-> "<" \o container \o ">", src |-> NoSrc]>> \o kids
         \o <<[tag |-> "</" \o container \o ">", src |-> NoSrc]>>

\* The extension EXT_REGEX finds in the path of the URL.
UrlExt(url) == IF url = "http://h/b" THEN "" ELSE "jpg"

\* The results of a spawned load_img task, seen by the join.
ImgResults == {"Img", "RequestError", "SIGTERM", "NoMime", "JoinError"}

\* Ordinals counted in the order the tasks ended.
ResourcePath_Completion(i, url) ==
    ToString((CHOOSE k \in DOMAIN finished : finished[k] = i) - 1)
    \o "." \o (IF UrlExt(url) # "" THEN UrlExt(url) ELSE "png")

\* format!("{i}.{ext}"): the extension of the URL, else that of the media type.
ResourcePath(i, url) == ToString(i - 1) \o "." \o (IF UrlExt(url) # "" THEN UrlExt(url) ELSE "png")

\* The HashMap collected from the tasks whose resource was added: a later
\* entry of the same key replaces an earlier one.
ImgMap(us, added) ==
    [u \in {us[i] : i \in added} |->
        LET last == CHOOSE i \in added : us[i] = u /\ \A j \in added : us[j] = u => j <= i
        IN  ResourcePath(last, u)]

\* What IMG_REGEX leaves of a tag it matched.
Removed == [tag |-> "", src |-> NoSrc]

\* IMG_REGEX.replace_all on one node of the markup: an img tag with a src
\* attribute is looked up in the map by the text of the attribute.
Replace(n, map) ==
    IF IsImg(n) /\ n.src # NoSrc
    THEN IF n.src \in DOMAIN map THEN [tag |-> "img", src |-> map[n.src]] ELSE Removed
    ELSE n

HtmlInit ==
    /\ PipelineIdle
    /\ FeedIdle
    /\ NameIdle
    /\ LinkIdle
    /\ DupIdle
    /\ doc \in Docs
    /\ opts \in Options
    /\ stage = "called"
    /\ elem = NoElem
    /\ markup = <<>>
    /\ urls = <<>>
    /\ img_task = <<>>
    /\ finished = <<>>
    /\ resources = {}
    /\ body = <<>>

\* The nodes get_urls looks at: those of the chosen element, or of the whole
\* document, after the clean step.
Scope(d, o) ==
    IF Narrowed(d, o) THEN Clear(ElementsOf(d)[Chosen(d, o)].kids)
    ELSE Clear(d.outside) \o Clear(d.inside)

\* elem.html() of the chosen element, or doc.html().
Markup(d, o) ==
    IF Narrowed(d, o)
    THEN Element(ElementsOf(d)[Chosen(d, o)].kind, Clear(ElementsOf(d)[Chosen(d, o)].kids))
    ELSE Clear(d.outside) \o Element(d.lead, <<>>) \o Element(d.container, Clear(d.inside))

\* clean_html up to the spawn of the image tasks: parse, clean, filter,
\* collect the URLs.
CleanHtml ==
    /\ stage = "called"
    /\ elem' = Chosen(doc, opts)
    /\ markup' = Markup(doc, opts)
    /\ urls' = IF opts.include_images THEN GetUrls(Scope(doc, opts), opts.base_url) ELSE <<>>
    /\ img_task' = [i \in 1..Len(urls') |-> "running"]
    /\ stage' = "fetching"
    /\ UNCHANGED <<doc, opts, finished, resources, body, notHtmlVars>>

\* One load_img task ends: an image, an error of the request, a cancelled
\* request, no media type (only when the URL has no extension to guess it
\* from), or a panic the join reports.
LoadImg(i) ==
    /\ stage = "fetching"
    /\ i \in DOMAIN img_task
    /\ img_task[i] = "running"
    /\ \E r \in ImgResults :
        /\ r = "NoMime" => UrlExt(urls[i]) = ""
        /\ img_task' = [img_task EXCEPT ![i] = r]
    /\ finished' = Append(finished, i)
    /\ UNCHANGED <<doc, opts, stage, elem, markup, urls, resources, body, notHtmlVars>>

\* A join that gives up on the first image that failed.
Rewrite_Propagates ==
    /\ stage = "fetching"
    /\ \A i \in DOMAIN img_task : img_task[i] # "running"
    /\ IF \E i \in DOMAIN img_task : img_task[i] # "Img"
       THEN stage' = "failed" /\ UNCHANGED <<resources, body>>
       ELSE /\ resources' = {ResourcePath(i, urls[i]) : i \in DOMAIN img_task}
            /\ body' = [k \in 1..Len(markup) |->
                          Replace(markup[k], ImgMap(urls, DOMAIN img_task))]
            /\ stage' = "returned"
    /\ UNCHANGED <<doc, opts, elem, markup, urls, img_task, finished, notHtmlVars>>

\* The rest of clean_html: the join, the resources added to the builder (each
\* add_resource may fail), the map, the rewrite of the img tags.
Rewrite ==
    /\ stage = "fetching"
    /\ \A i \in DOMAIN img_task : img_task[i] # "running"
    /\ \E rejected \in SUBSET {i \in DOMAIN img_task : img_task[i] = "Img"} :
        LET added == {i \in DOMAIN img_task : img_task[i] = "Img"} \ rejected
        IN  /\ resources' = {ResourcePath(i, urls[i]) : i \in added}
            /\ body' = [k \in 1..Len(markup) |-> Replace(markup[k], ImgMap(urls, added))]
    /\ stage' = "returned"
    /\ UNCHANGED <<doc, opts, elem, markup, urls, img_task, finished, notHtmlVars>>

HtmlNext ==
    \/ CleanHtml
    \/ \E i \in 1..(MaxInside + 1) : LoadImg(i)
    \/ Rewrite

HtmlSpec == HtmlInit /\ [][HtmlNext]_vars

\* ============================================================ artifact path
\* slugify!(title, max_length = 32): lower case, every run of other
\* characters a "-", none at the ends.
Slugify(title) ==
    CASE title = "Hello" -> "hello"
      [] title = "hello!" -> "hello"
      [] title = "Bye" -> "bye"

\* date.format("%Y-%m-%dT%H:%M:%S") of a published time.
FormatDate(time) == "T" \o ToString(time)

\* Sha224 of the id, in hexadecimal, with the extension.
HashName(id) == "sha224(" \o id \o ").epub"

\* The parts of the file name, joined with "_" below save_path.
FileName(id, m) ==
    (IF m.published # NoTime THEN <<FormatDate(m.published)>> ELSE <<>>)
    \o (IF m.title # "None" THEN <<Slugify(m.title)>> ELSE <<>>)
    \o <<HashName(id)>>

\* The artifact files whose name ends in the hash of the id.
FilesOf(id) == {f \in saved : f[Len(f)] = HashName(id)}

NameInit ==
    /\ PipelineIdle
    /\ FeedIdle
    /\ HtmlIdle
    /\ LinkIdle
    /\ DupIdle
    /\ meta \in [Ids -> [title : Titles, published : {NoTime} \cup (1..MaxTime)]]
    /\ saved = {}
    /\ edits = 0

\* load_entry on the entry the feed holds for the id: nothing is written when
\* the file exists or when an earlier step returned an error.
WriteEntry(id) ==
    /\ \/ saved' = saved \cup {FileName(id, meta[id])}
       \/ saved' = saved
    /\ UNCHANGED <<meta, edits, notNameVars>>

\* Between two runs the feed gives an entry another title or published time.
EditEntry(id) ==
    /\ edits < MaxEdits
    /\ edits' = edits + 1
    /\ \E m \in [title : Titles, published : {NoTime} \cup (1..MaxTime)] :
        /\ m # meta[id]
        /\ meta' = [meta EXCEPT ![id] = m]
    /\ UNCHANGED <<saved, notNameVars>>

NameNext == \E id \in Ids : WriteEntry(id) \/ EditEntry(id)

NameSpec == NameInit /\ [][NameNext]_vars

\* ==================================================== download_full_article
\* mt.contains("html")
ContainsHtml(mt) == mt \in {"text/html", "application/xhtml+xml"}

\* l.media_type.as_ref().map(|mt| mt.contains("html"))
MapContainsHtml(mt) ==
    IF mt = "None" THEN "None"
    ELSE IF ContainsHtml(mt) THEN "Some(true)" ELSE "Some(false)"

\* Option::is_some
IsSome(o) == o # "None"

\* Iterator::find: the first of the positions the predicate holds at, NoLink
\* if there is none.
Find(positions) ==
    IF positions = {} THEN NoLink
    ELSE CHOOSE i \in positions : \A j \in positions : i <= j

\* The link download_full_article fetches: the find, the two or_else.
BestLink(ls) ==
    LET typed == Find({i \in 1..Len(ls) : IsSome(MapContainsHtml(ls[i]))})
        untyped == Find({i \in 1..Len(ls) : ls[i] = "None"})
    IN  IF typed # NoLink THEN typed
        ELSE IF untyped # NoLink THEN untyped
        ELSE IF Len(ls) > 0 THEN 1
        ELSE NoLink

LinkInit ==
    /\ PipelineIdle
    /\ FeedIdle
    /\ HtmlIdle
    /\ NameIdle
    /\ DupIdle
    /\ links \in SeqUpTo(MediaTypes, MaxLinks)
    /\ link_stage = "called"
    /\ picked = NoLink

\* download_full_article up to the request: the link is chosen, or the call
\* fails with no request made.
PickLink ==
    /\ link_stage = "called"
    /\ picked' = BestLink(links)
    /\ link_stage' = IF BestLink(links) = NoLink THEN "No link to download" ELSE "fetching"
    /\ UNCHANGED <<links, notLinkVars>>

\* The request for the href of the chosen link ends: a body that is UTF-8
\* goes to clean_html, an error of the request or of from_utf8 ends the call.
LinkFetched ==
    /\ link_stage = "fetching"
    /\ link_stage' \in {"html", "RequestError", "SIGTERM", "FromUtf8Error"}
    /\ UNCHANGED <<links, picked, notLinkVars>>

LinkNext == PickLink \/ LinkFetched

LinkSpec == LinkInit /\ [][LinkNext]_vars

\* ================================================= update calls for one id
DupInit ==
    /\ PipelineIdle
    /\ FeedIdle
    /\ HtmlIdle
    /\ NameIdle
    /\ LinkIdle
    /\ prior \in {NoRec} \cup Records(DupId)
    /\ inner = [prev |-> prior, new |-> NoRec]
    /\ guard = NoCall
    /\ calls = [c \in Calls |-> "called"]
    /\ updated_arg \in [Calls -> {NoTime} \cup Times]
    /\ taken = [c \in Calls |-> NoRec]
    /\ produced = 0

\* A call gets the lock and removes the record from prev: a record that is
\* fresh moves to new and the call returns Ok; otherwise the call binds what
\* it removed and polls save_file, the guard held.
DupUpdateBegin(c) ==
    /\ calls[c] = "called"
    /\ guard = NoCall
    /\ IF inner.prev # NoRec /\ Fresh(inner.prev, updated_arg[c])
       THEN /\ inner' = [prev |-> NoRec, new |-> inner.prev]
            /\ calls' = [calls EXCEPT ![c] = "Ok"]
            /\ UNCHANGED <<guard, taken, produced>>
       ELSE /\ inner' = [inner EXCEPT !.prev = NoRec]
            /\ taken' = [taken EXCEPT ![c] = inner.prev]
            /\ guard' = c
            /\ calls' = [calls EXCEPT ![c] = "save_file"]
            /\ produced' = produced + 1
    /\ UNCHANGED <<prior, updated_arg, notDupVars>>

\* save_file ends: Ok(path) inserts the new record, Err puts back the record
\* the call had removed, if any; the guard is dropped.
DupUpdateEnd(c) ==
    /\ calls[c] = "save_file"
    /\ \/ /\ inner' = [inner EXCEPT !.new = [path |-> ProducedPath(DupId),
                                             last_update |-> ResolveTime(updated_arg[c])]]
          /\ calls' = [calls EXCEPT ![c] = "Ok"]
       \/ /\ inner' = IF taken[c] # NoRec THEN [inner EXCEPT !.new = taken[c]] ELSE inner
          /\ calls' = [calls EXCEPT ![c] = "Err"]
    /\ guard' = NoCall
    /\ UNCHANGED <<prior, updated_arg, taken, produced, notDupVars>>

DupNext == \E c \in Calls : DupUpdateBegin(c) \/ DupUpdateEnd(c)

DupSpec == DupInit /\ [][DupNext]_vars

\* ================================================================ the claims
\* The record the previous-run snapshot holds for e is fresh for the feed.
PriorFresh(e) ==
    /\ loaded[e] # NoRec
    /\ (feed[e] = NoTime \/ loaded[e].last_update >= feed[e])

\* update has to upsert: no prior record, or the feed is strictly newer.
PriorStale(e) ==
    \/ loaded[e] = NoRec
    \/ (feed[e] # NoTime /\ feed[e] > loaded[e].last_update)

Returned(e) == pc[e] = "done"
Failed(e) == res[e] \notin {"none", "ok"}
InFlight == {f \in Fetchers : get[f] \in {"sent", "reading"}}

\* C1: an update call that finds a prior record which is at least as new as the
\* feed's time (or the feed gives no time) never polls produce, returns Ok and
\* leaves exactly the prior record (same path, same last_update) in new.
C1_FreshCarriedForward ==
    \A e \in Ids :
        PriorFresh(e) =>
            /\ invoked[e] = 0
            /\ Returned(e) => (res[e] = "ok" /\ new[e] = loaded[e])

C1_Witness ==
    \E e \in Ids :
        /\ Returned(e) /\ PriorFresh(e)
        /\ feed[e] # NoTime /\ loaded[e].last_update = feed[e]

\* C2: an update call whose produce failed returns that failure; new then holds
\* the prior record unmodified if there was one, and no record for the id if
\* there was none.
C2_FailureKeepsPrior ==
    \A e \in Ids :
        /\ (Returned(e) /\ Failed(e)) => (invoked[e] = 1 /\ new[e] = loaded[e])
        /\ (Returned(e) /\ e \notin Inline /\ get[ArticleGet(e)] \in Final \ {"ok"})
              => (res[e] = (IF get[ArticleGet(e)] = "error" THEN "net" ELSE "SIGTERM")
                  /\ new[e] = loaded[e])

C2_Witness ==
    \E e \in Ids :
        /\ Returned(e) /\ res[e] = "net"
        /\ loaded[e] # NoRec /\ new[e] = loaded[e]
        /\ \E d \in Ids : Returned(d) /\ Failed(d) /\ loaded[d] = NoRec /\ new[d] = NoRec

\* C3: an update call that finds no prior record, or a feed time strictly newer
\* than the stored one, polls produce exactly once; when produce succeeds new
\* holds the path produce returned and the feed's time, or the current time
\* when the feed gave none.
C3_UpsertOnce ==
    \A e \in Ids :
        /\ invoked[e] <= 1
        /\ (PriorStale(e) /\ pc[e] \notin {"unspawned", "waitlock"}) => invoked[e] = 1
        /\ (PriorStale(e) /\ Returned(e) /\ res[e] = "ok") =>
              new[e] = [path |-> PathOf(e),
                        last_update |-> IF feed[e] = NoTime THEN now ELSE feed[e]]

C3_Witness ==
    /\ \E e \in Ids : /\ Returned(e) /\ res[e] = "ok"
                      /\ loaded[e] # NoRec /\ feed[e] > loaded[e].last_update
                      /\ new[e].last_update = feed[e] /\ new[e].path # loaded[e].path
    /\ \E d \in Ids : /\ Returned(d) /\ res[d] = "ok"
                      /\ loaded[d] = NoRec /\ feed[d] = NoTime /\ new[d].last_update = now

\* C4: the merge at shutdown keeps every record already in new, and the
\* snapshot written to db.json holds, unchanged, every record of the loaded
\* snapshot whose key no update call touched.
C4_UntouchedSurvive ==
    /\ [](dropRes = "written" =>
            /\ dbFile.kind = "full"
            /\ \A id \in Ids : (pc[id] = "unspawned" /\ loaded[id] # NoRec)
                                   => dbFile.snap[id] = loaded[id])
    /\ [][phase = "created" => \A id \in Ids : new[id] # NoRec => new'[id] = new[id]]_vars
    /\ [][(phase = "merged" /\ dropRes' = "written") => dbFile'.snap = new]_vars

C4_Witness ==
    /\ dropRes = "written"
    /\ \E id \in Ids : pc[id] = "unspawned" /\ loaded[id] # NoRec /\ dbFile.snap[id] = loaded[id]


C6_PermitBound ==
    /\ Cardinality(InFlight) <= Min(concurrent_requests, MAX_PERMITS)
    /\ Cardinality(held) <= Min(concurrent_requests, MAX_PERMITS)
    /\ InFlight \subseteq held

C6_Witness ==
    /\ concurrent_requests > MAX_PERMITS
    /\ Cardinality(InFlight) = MAX_PERMITS
    /\ \E f \in Fetchers : get[f] = "acquire"
    /\ \E f \in InFlight : get[f] = "reading"

\* C7: get reads the flag after the acquire, after the headers and after the
\* body, and nowhere else; when the flag is set there the call returns the
\* SIGTERM error and no Response, and its permit is back in the pool once it
\* has returned.
C7_Checkpoints ==
    /\ [](\A f \in Fetchers : get[f] \in Cancelled => f \notin held)
    /\ [](permits + Cardinality(held) = Min(concurrent_requests, MAX_PERMITS))
    /\ [][\A f \in Fetchers :
            /\ (get[f] = "acquire" /\ get'[f] # "acquire" /\ run' = run)
                  => get'[f] = (IF sigterm THEN "cancelled1" ELSE "sent")
            /\ (get[f] = "sent" /\ get'[f] \notin {"sent", "error"})
                  => get'[f] = (IF sigterm THEN "cancelled2" ELSE "reading")
            /\ (get[f] = "reading" /\ get'[f] \notin {"reading", "error"})
                  => get'[f] = (IF sigterm THEN "cancelled3" ELSE "ok")
            /\ (get'[f] \in Cancelled /\ get[f] \notin Cancelled)
                  => (sigterm /\ get[f] \in {"acquire", "sent", "reading"})]_vars

C7_Witness ==
    \E f, g \in Fetchers :
        /\ get[f] = "cancelled3" /\ get[g] = "cancelled1"
        /\ held = {} /\ permits = Min(concurrent_requests, MAX_PERMITS)

\* C8 as stated: when any fetch of an entry, its article or one of its images,
\* returned SIGTERM at the second checkpoint, no artifact is written for the
\* entry and new holds its prior record, if any, unmodified.
C8_Original ==
    [][\A e \in Ids :
         (/\ pc[e] \in {"article", "images"}
          /\ pc'[e] = "done"
          /\ \E f \in Fetchers : f[1] \in {"article", "img"} /\ f[2] = e /\ get[f] = "cancelled2")
         => (files'[e] = "absent" /\ new'[e] = loaded[e])]_vars

\* C8, amended: an article fetch that returned SIGTERM at the second checkpoint
\* has released its permit, fails the entry with that error, leaves no artifact
\* and leaves the prior record, if any, in new; an image fetch cancelled there
\* has released its permit too, but only that image is dropped.
C8_ArticleCancelled ==
    /\ \A e \in Ids \ Inline :
          get[ArticleGet(e)] = "cancelled2" =>
              /\ ArticleGet(e) \notin held
              /\ files[e] = "absent"
              /\ Returned(e) => (res[e] = "SIGTERM" /\ new[e] = loaded[e])
    /\ \A e \in Ids : \A i \in Images :
          get[ImgGet(e, i)] = "cancelled2" => ImgGet(e, i) \notin held

C8_Witness ==
    \E e \in Ids \ Inline :
        /\ get[ArticleGet(e)] = "cancelled2" /\ Returned(e)
        /\ loaded[e] # NoRec /\ new[e] = loaded[e] /\ res[e] = "SIGTERM"

\* C9: once the flag is set nothing is undone: an artifact file that exists
\* stays as it is, a record in new stays as it is, and the snapshot written at
\* shutdown is new.
C9_NoRollback ==
    /\ [][(sigterm /\ run' = run) =>
            /\ \A e \in Ids : files[e] # "absent" => files'[e] = files[e]
            /\ \A id \in Ids : new[id] # NoRec => new'[id] = new[id]]_vars
    /\ []((sigterm /\ dropRes = "written") => dbFile = FullFile(new))

C9_Witness ==
    /\ sigterm /\ dropRes = "written"
    /\ \E e, d \in Ids :
          /\ res[e] = "ok" /\ files[e] = "complete" /\ dbFile.snap[e].path = PathOf(e)
          /\ res[d] = "SIGTERM" /\ dbFile.snap[d] = loaded[d] /\ loaded[d] # NoRec

\* C10 as stated: db.json always holds the complete snapshot this run loaded
\* (or is still missing), or the complete new snapshot.
C10_CrashConsistent ==
    \/ dbFile.kind = "absent" /\ loaded = EmptyDb
    \/ dbFile.kind = "full" /\ dbFile.snap = loaded
    \/ dbFile.kind = "full" /\ dropRes = "written" /\ dbFile.snap = new

\* load_entry has made its choice for e.
Selected(e) == source[e] # "none" \/ entry_task[e] \in {"NoContent", "NoLink"}
\* The choice was the best outbound link (found or not).
ArticlePath(e) == source[e] = "article" \/ entry_task[e] = "NoLink"
SiblingsOf(e) == {d \in FeedEntries : d # e /\ FeedOf(d) = FeedOf(e)}

\* C11 as stated: the content comes from the article when the policy is always;
\* else from the inline body when it is present and not empty, with no article
\* fetch; else the entry fails when the policy is never; else from the article.
\* A present but empty body counts as no inline content.
C11_SelectionOrder ==
    \A e \in FeedEntries :
        Selected(e) =>
            IF download_full_article[FeedOf(e)] = "Some(true)" THEN ArticlePath(e)
            ELSE IF entry_content[e] = "Body" THEN source[e] = "inline" /\ article_gets[e] = 0
            ELSE IF download_full_article[FeedOf(e)] = "Some(false)" THEN entry_task[e] = "NoContent"
            ELSE ArticlePath(e)

C13_FailureIsolation ==
    /\ \A e \in FeedEntries : entry_task[e] \in FeedRunning => ENABLED EntryNext(e)
    /\ \A s \in FeedServers : server_task[s] = "fetch" => ENABLED SpawnEntries(s)
    /\ driver = "done" =>
          /\ \A s \in FeedServers : server_task[s] # "fetch"
          /\ \A e \in FeedEntries :
                server_task[FeedOf(e)] = "spawned" => entry_task[e] \in FeedFinal

C13_Witness ==
    /\ driver = "done"
    /\ server_task["f2"] = "err" /\ server_task["f1"] = "spawned"
    /\ entry_task["x"] \in FeedErrors /\ entry_task["y"] = "ok" /\ epub["y"]

\* ---------------------------------------------------------------- C14..C17
\* clean_html has returned its body.
HtmlReturned == stage = "returned"

\* The load_img tasks that ended without an image.
FailedTasks == {i \in DOMAIN img_task : img_task[i] \notin {"running", "Img"}}

\* The tasks whose resource add_resource accepted.
Registered == {i \in DOMAIN img_task : img_task[i] = "Img" /\ ResourcePath(i, urls[i]) \in resources}

\* C14: no failure of an image makes clean_html fail: from every state of a
\* call the next step of clean_html can be taken, whatever the image tasks
\* returned, and the call ends with a body for the whole of the markup.
C14_AlwaysReturns ==
    /\ stage \in {"called", "fetching", "returned"}
    /\ stage = "called" => ENABLED CleanHtml
    /\ \A i \in DOMAIN img_task : img_task[i] = "running" => ENABLED LoadImg(i)
    /\ (stage = "fetching" /\ \A i \in DOMAIN img_task : img_task[i] # "running")
          => ENABLED Rewrite
    /\ HtmlReturned => Len(body) = Len(markup)

\* C14 witness: clean_html returned a body after one image task panicked and
\* the request of another was cancelled.
C14_Witness ==
    /\ HtmlReturned
    /\ \E i, j \in DOMAIN img_task : img_task[i] = "JoinError" /\ img_task[j] = "SIGTERM"
    /\ Len(markup) > 0

\* C15: every img element whose URL did not resolve, or every fetch of whose
\* URL failed, has no img tag in the returned markup.
C15_FailedImagesRemoved ==
    HtmlReturned /\ opts.include_images =>
        \A k \in 1..Len(markup) :
            (/\ IsImg(markup[k])
             /\ \/ Resolve(markup[k].src, opts.base_url) = "Err"
                \/ /\ \E i \in DOMAIN urls : urls[i] = Resolve(markup[k].src, opts.base_url)
                   /\ \A i \in DOMAIN urls :
                        urls[i] = Resolve(markup[k].src, opts.base_url) => i \in FailedTasks)
            => ~IsImg(body[k])

\* C16: every img element whose URL was fetched and registered as a resource
\* has in its place an img tag whose src is the path of that resource.
C16_EmbeddedImagesRewritten ==
    HtmlReturned =>
        \A k \in 1..Len(markup) :
            (/\ IsImg(markup[k])
             /\ \E i \in Registered : urls[i] = Resolve(markup[k].src, opts.base_url))
            => /\ IsImg(body[k])
               /\ \E i \in Registered :
                    /\ urls[i] = Resolve(markup[k].src, opts.base_url)
                    /\ body[k].src = ResourcePath(i, urls[i])

\* C17: whatever the document and the options, neither the markup the filter
\* step leaves nor the markup clean_html returns contains an element
\* CLEAR_SELECTOR matches.
C17_NoNoise ==
    /\ stage \in {"fetching", "returned"} => \A k \in 1..Len(markup) : markup[k].tag \notin NoiseTags
    /\ HtmlReturned => \A k \in 1..Len(body) : body[k].tag \notin NoiseTags

\* C17 witness: a document with a script outside and a noise element inside
\* the element the filter narrowed it to, images included, has been returned.
C17_Witness ==
    /\ HtmlReturned
    /\ opts.include_images
    /\ elem # NoElem
    /\ doc.lead = "none"
    /\ \E k \in 1..Len(doc.outside) : doc.outside[k].tag = "script"
    /\ \E k \in 1..Len(doc.inside) : doc.inside[k].tag \in NoiseTags

\* --------------------------------------------------------------------- C18
\* C18: over any sequence of runs at most one artifact file exists per entry
\* id, whatever the feed does to the title and the times of the entry.
C18_OneFilePerId == \A id \in Ids : Cardinality(FilesOf(id)) <= 1

\* --------------------------------------------------------------------- C19
\* C19: once download_full_article has chosen, the link it fetches is the
\* first whose declared media type contains "html", else the first with no
\* declared media type, else the first; with no link it fails and has made no
\* request.
C19_BestLink ==
    LET FirstOf(S) == CHOOSE i \in S : \A j \in S : i <= j
        html == {i \in 1..Len(links) : ContainsHtml(links[i])}
        untyped == {i \in 1..Len(links) : links[i] = "None"}
    IN  link_stage # "called" =>
            /\ html # {} => picked = FirstOf(html)
            /\ (html = {} /\ untyped # {}) => picked = FirstOf(untyped)
            /\ (html = {} /\ untyped = {} /\ Len(links) > 0) => picked = 1
            /\ Len(links) = 0 => (picked = NoLink /\ link_stage = "No link to download")

\* --------------------------------------------------------------------- C20
\* C20: whatever the order of the update calls for one id in a run, save_file
\* is polled at most once for the id, and not at all when the record the run
\* loaded is fresh for every call.
C20_AtMostOnce ==
    /\ produced <= 1
    /\ (prior # NoRec /\ \A c \in Calls : Fresh(prior, updated_arg[c])) => produced = 0

\* --------------------------------------------------------------------- C21
\* C21: in every state of a run each record of new is the record the loaded
\* snapshot held for the id, or the record an update call inserted for the id
\* after its produce returned Ok in this run; an id whose update failed and
\* that had no record in the loaded snapshot has none in new.
C21_RecordsEarned ==
    \A e \in Ids :
        /\ new[e] # NoRec =>
              \/ new[e] = loaded[e]
              \/ /\ res[e] = "ok"
                 /\ invoked[e] = 1
                 /\ new[e] = [path |-> ProducedPath(e), last_update |-> ResolveTime(feed[e])]
        /\ (Failed(e) /\ loaded[e] = NoRec) => new[e] = NoRec

\* C21 witness: the merge of Drop is done; one entry's record was inserted by
\* a produce that returned Ok, the other entry failed with no prior record.
C21_Witness ==
    /\ phase = "merged"
    /\ \E e, d \in Ids :
        /\ res[e] = "ok" /\ invoked[e] = 1 /\ new[e] # NoRec /\ new[e] # loaded[e]
        /\ Failed(d) /\ loaded[d] = NoRec /\ new[d] = NoRec

\* --------------------------------------------------------------------- C22
\* The load_img tasks of an entry that have not returned.
ImagesRunning(e) == {i \in Images : get[ImgGet(e, i)] \in {"acquire", "sent", "reading"}}

\* The run is past its joins: Drop has begun or ended.
RunJoined == phase \in {"created", "merged", "stopped"}

C23_OrderIndependent ==
    /\ phase = "merged" =>
          \A e \in Ids :
              new[e] = IF res[e] = "ok" /\ (loaded[e] = NoRec \/ ~Fresh(loaded[e], feed[e]))
                       THEN [path |-> ProducedPath(e), last_update |-> ResolveTime(feed[e])]
                       ELSE loaded[e]
    /\ \A e \in Ids : (phase = "running" /\ pc[e] = EntryTaskStart) => ENABLED UpdateBegin(e)

\* --------------------------------------------------------------------- C24
\* C24: whatever the order in which the image tasks ended, every registered
\* resource is named by the position its image has in the collection of the
\* URLs (counted from 0) and by its extension, the collection is the one made
\* before the first task was spawned, and no two collected images have the
\* same path.
C24_StableOrdinals ==
    LET Named(i) == ToString(i - 1) \o "." \o (IF UrlExt(urls[i]) # "" THEN UrlExt(urls[i]) ELSE "png")
    IN  /\ stage # "called" =>
              urls = IF opts.include_images THEN GetUrls(Scope(doc, opts), opts.base_url) ELSE <<>>
        /\ \A r \in resources : \E i \in DOMAIN urls : img_task[i] = "Img" /\ r = Named(i)
        /\ \A i, j \in DOMAIN urls : i # j => Named(i) # Named(j)

\* C24 witness: the second collected image was fetched before the first, and
\* both are registered under their collection positions.
C24_Witness ==
    /\ HtmlReturned
    /\ finished = <<2, 1>>
    /\ resources = {"0.jpg", "1.png"}

\* --------------------------------------------------------------------- C25
\* C25: once the filter step is done, with enable_filter the document is
\* narrowed to the first element the configured selector matches when that
\* selector is given, parses and matches; else to the first article; else to
\* the first main element; a later selector never wins over an earlier one
\* that matches; when no selector matches, or enable_filter is unset, the
\* whole document is kept.
C25_FirstSelectorWins ==
    LET els == ElementsOf(doc)
        Of(kind) == {k \in 1..Len(els) : els[k].kind = kind}
        First(S) == CHOOSE k \in S : \A j \in S : k <= j
        custom == IF opts.filter_element = "#custom" THEN Of("custom") ELSE {}
        whole == Clear(doc.outside) \o Element(doc.lead, <<>>)
                 \o Element(doc.container, Clear(doc.inside))
    IN  stage # "called" =>
            /\ ~opts.enable_filter => (elem = NoElem /\ markup = whole)
            /\ (opts.enable_filter /\ custom # {}) => elem = First(custom)
            /\ (opts.enable_filter /\ custom = {} /\ Of("article") # {})
                  => elem = First(Of("article"))
            /\ (opts.enable_filter /\ custom = {} /\ Of("article") = {} /\ Of("main") # {})
                  => elem = First(Of("main"))
            /\ (opts.enable_filter /\ custom = {} /\ Of("article") = {} /\ Of("main") = {})
                  => (elem = NoElem /\ markup = whole)
            /\ elem # NoElem => markup = Element(els[elem].kind, Clear(els[elem].kids))

\* C25 witness: an article precedes the div the configured selector matches,
\* and the document was narrowed to the div, the second element.
C25_Witness ==
    /\ HtmlReturned
    /\ opts.enable_filter
    /\ opts.filter_element = "#custom"
    /\ doc.lead = "article"
    /\ doc.container = "custom"
    /\ elem = 2
    /\ Len(doc.inside) > 0

\* --------------------------------------------------------------------- C26
\* C26: with include_images unset clean_html collects no URL, spawns no image
\* task and registers no resource, narrowed or not, and the markup it returns
\* holds no img tag.
C26_ImagesDisabled ==
    ~opts.include_images =>
        /\ urls = <<>> /\ img_task = <<>> /\ resources = {}
        /\ HtmlReturned => \A k \in 1..Len(body) : ~IsImg(body[k])

\* ---------------------------------------------------------------- C27..C28
\* load_entry returned Ok(()) at filename.exists(): nothing of it ran.
Skipped(e) == entry_task[e] = "ok" /\ e \in existed
\* File::create and generate both succeeded in this run.
Written(e) == entry_task[e] = "ok" /\ epub[e]

\* C27: an entry has at most one addDocument event; it has one exactly when its
\* file was created and generated in this run, so never before the file is
\* there, never when the entry ended in an error (a failed generate included)
\* and never when the entry was skipped because its file existed.
C27_EventOnce ==
    \A e \in FeedEntries :
        /\ events[e] \in {0, 1}
        /\ events[e] = 1 <=> Written(e)
        /\ events[e] = 1 => epub[e] /\ e \notin existed
        /\ entry_task[e] \in FeedErrors => events[e] = 0
        /\ Skipped(e) => events[e] = 0
        /\ (entry_task[e] = "ok" /\ ~Skipped(e)) => events[e] = 1

\* One entry skipped, its sibling written with its event, and an entry whose
\* file was created but not generated, without an event.
C27_Witness ==
    /\ Skipped("x") /\ events["x"] = 0
    /\ Written("y") /\ events["y"] = 1
    /\ entry_task["z"] = "io" /\ epub["z"] /\ events["z"] = 0
    /\ driver = "done"

\* C28: an entry whose file is there before the run returns Ok(()) (or the
\* error of its builder, made before the file name): whatever its content,
\* its links and the policy, no article is fetched, clean_html and with it the
\* image fetches are never reached (the source stays "none"), File::create is
\* not called on the file and no event is printed.
C28_ExistingSkipped ==
    \A e \in existed :
        /\ entry_task[e] \in {"unspawned", "start", "ok", "io"}
        /\ source[e] = "none" /\ article_gets[e] = 0
        /\ ~epub[e] /\ events[e] = 0

\* An entry with a new body, a link and the policy always, skipped for its
\* file, while its sibling fetched its article and wrote its own file.
C28_Witness ==
    /\ "x" \in existed /\ entry_task["x"] = "ok"
    /\ entry_content["x"] = "Body" /\ entry_links["x"]
    /\ download_full_article["f1"] = "Some(true)"
    /\ source["y"] = "article" /\ article_gets["y"] = 1 /\ Written("y")
    /\ driver = "done"

\* ---------------------------------------------------------------- C29..C30
\* C29: a get call that has returned, by Ok, by the error of the request or of
\* the body read, or by SIGTERM at any of the three checkpoints, holds no
\* permit; the permits out of the pool are exactly those of the calls between
\* their acquire and their return, so with no call in progress the pool has
\* all min(concurrent_requests, MAX_PERMITS) permits.
C29_PermitConservation ==
    /\ \A f \in Fetchers : get[f] \in Final => f \notin held
    /\ held = InFlight
    /\ permits = PoolSize(concurrent_requests) - Cardinality(InFlight)
    /\ InFlight = {} => permits = PoolSize(concurrent_requests)

\* Calls have left by Ok, by an error, and by SIGTERM after the acquire and
\* after the headers; none is in progress and the pool is full.
C29_Witness ==
    /\ \E f, g, h, k \in Fetchers :
          get[f] = "ok" /\ get[g] = "error" /\ get[h] = "cancelled2" /\ get[k] = "cancelled1"
    /\ InFlight = {}
    /\ permits = PoolSize(concurrent_requests) /\ permits > 0

\* The entries whose save_file future has been polled and has not returned.
Producing == {e \in Ids : pc[e] \in {"produce", "article", "images"}}

\* C30: the guard taken at the lookup is kept until save_file has returned, so
\* at most one entry is inside produce at any time and it is the one that has
\* the guard; while it is, no other update call can pass its lock().await, the
\* call of an entry whose prior record is fresh included.
C30_OneProduce ==
    /\ Cardinality(Producing) <= 1
    /\ \A e \in Ids : e \in Producing <=> lock = e
    /\ Producing # {} =>
          \A d \in Ids : pc[d] = EntryTaskStart => ~ENABLED UpdateBegin(d)

\* Entry a is fetching its images while the update call of entry b, whose
\* prior record is fresh, waits for the guard.
C30_Witness ==
    /\ pc["a"] = "images" /\ lock = "a"
    /\ pc["b"] = EntryTaskStart
    /\ prev["b"] # NoRec /\ Fresh(prev["b"], feed["b"])

\* --------------------------------------------------------------------- C31
\* The get calls that have been made and have not returned.
Pending == {f \in Fetchers : get[f] \in {"acquire", "sent", "reading"}}
\* The update calls that have been made and have not returned.
Updating == {e \in Ids : pc[e] \in {EntryTaskStart, "produce", "article", "images"}}

\* C31: with concurrent_requests >= 1, every request answered and the tasks
\* scheduled fairly, every get call that was made returns, every update call
\* that was made returns, and every run comes to the end of its shutdown.
C31_NoDeadlock ==
    /\ \A f \in Fetchers : (f \in Pending) ~> (get[f] \in Final)
    /\ \A e \in Ids : (e \in Updating) ~> (pc[e] = "done")
    /\ (phase = "running") ~> (phase = "stopped")

\* Entry a has the guard and waits for its two image fetches, which wait for
\* the only permit; the feed fetch of the other server holds it.
C31_Witness ==
    /\ lock = "a" /\ pc["a"] = "images"
    /\ \A i \in Images : get[ImgGet("a", i)] = "acquire"
    /\ NumImages > PoolSize(concurrent_requests)
    /\ FeedGet("s2") \in held /\ permits = 0
    /\ pc["b"] = EntryTaskStart

\* --------------------------------------------------------------------- C32
\* Every update call for the id has returned.
CallsReturned == \A c \in Calls : calls[c] \in {"Ok", "Err"}
\* What Drop's merge loop leaves for the id: the record of new, else of prev.
DupMerged == IF inner.new = NoRec THEN inner.prev ELSE inner.new

\* C32: when the run loaded a record for the id and every update call for the
\* id has returned, whatever their feed times and their order, the record
\* that shutdown writes for the id has a last_update that is not below the
\* loaded one.
C32_NeverDecreases ==
    (prior # NoRec /\ CallsReturned) => DupMerged.last_update >= prior.last_update

\* --------------------------------------------------------------------- C33
\* C33: every img tag of the markup clean_html returned has a src, and the
\* src is the path of a resource that add_resource accepted, also when a URL
\* occurs in several img tags and one of its fetches failed.
C33_NoDangling ==
    HtmlReturned =>
        \A k \in 1..Len(body) : IsImg(body[k]) => body[k].src \in resources

====
